---- MODULE Spec2Model ----
(***************************************************************************)
(* State-machine model of openff.interchange.components.potentials         *)
(* (Collection and its flattening operations) and of the valence          *)
(* collections of openff.interchange.smirnoff._valence (store_matches,    *)
(* store_potentials, create).                                              *)
(*                                                                         *)
(* Python values are represented as follows.                               *)
(*   None / a value      : <<>> / <<v>>                                    *)
(*   dict (ordered)      : sequence of <<key, value>> in insertion order   *)
(*   Quantity            : [m |-> magnitude, units |-> unit string]        *)
(*   Potential           : [wrapped |-> FALSE, parameters, map_key]        *)
(*   WrappedPotential    : [wrapped |-> TRUE, inner_data], inner_data a    *)
(*                         dict Potential -> coefficient <<num, den>>      *)
(*   numpy 2-D array     : [nrows, ncols, rows], rows a sequence of rows   *)
(*   fractional bond order, sample bond orders: integers, in tenths        *)
(***************************************************************************)
EXTENDS Integers, Sequences, FiniteSets, TLC

VARIABLES
    kind,        \* the class of the collection: its type tag
    key_map,     \* Collection.key_map: dict TopologyKey -> PotentialKey
    potentials,  \* Collection.potentials: dict PotentialKey -> (Wrapped)Potential
    matched_ok,  \* the last store_matches call completed without error
    populated,   \* store_potentials completed without error after it
    pc,          \* the caller: "ready" to call, or a call has "returned"
    ret          \* the last call: its name, argument, outcome and result

vars == <<kind, key_map, potentials, matched_ok, populated, pc, ret>>

(* Number of topology slots (bonds, angles, torsions) a topology can have,  *)
(* and the largest number of slots of a directly constructed Collection.    *)
MaxSlots == 2

None == <<>>

Some(x) == <<x>>

Quantity(m, u) == [m |-> m, units |-> u]

Range(s) == {s[i] : i \in 1..Len(s)}

(* ------------------------------ dict ------------------------------------ *)

DictKeys(d) == [i \in 1..Len(d) |-> d[i][1]]

DictValues(d) == [i \in 1..Len(d) |-> d[i][2]]

DictHas(d, k) == \E i \in 1..Len(d) : d[i][1] = k

DictGet(d, k) == d[CHOOSE i \in 1..Len(d) : d[i][1] = k][2]

(* d[k] = v : an existing key keeps its position, a new key is appended. *)
DictSet(d, k, v) ==
    IF DictHas(d, k)
    THEN [i \in 1..Len(d) |-> IF d[i][1] = k THEN <<k, v>> ELSE d[i]]
    ELSE Append(d, <<k, v>>)

(* ------------------------------ keys ------------------------------------ *)

TopologyKey(atoms, mult, bo) ==
    [atom_indices |-> atoms, mult |-> mult, bond_order |-> bo]

PotentialKey(id, mult, handler, bo) ==
    [id |-> id, mult |-> mult, associated_handler |-> handler, bond_order |-> bo]

(* ---------------------------- potentials -------------------------------- *)

Potential(parameters, map_key) ==
    [wrapped |-> FALSE, parameters |-> parameters, map_key |-> map_key]

(* WrappedPotential(data) with data a dict Potential -> coefficient. *)
WrappedPotential(data) == [wrapped |-> TRUE, inner_data |-> data]

(* WrappedPotential(data) with data a single Potential: weight 1.0. *)
WrappedPotentialOf(pot) == WrappedPotential(<< <<pot, <<1, 1>> >> >>)

isinstance_WrappedPotential(p) == p.wrapped

(* The parameter names of a WrappedPotential: the union of the names of    *)
(* its constituents.                                                       *)
WrappedKeys(w) ==
    UNION { Range(DictKeys(w.inner_data[i][1].parameters)) : i \in 1..Len(w.inner_data) }

(* WrappedPotential.parameters raising only for a name of the first      *)
(* constituent that another constituent lacks.                           *)
WrappedParametersRaisesFirst(w) ==
    \E i \in 1..Len(w.inner_data) :
        \E n \in Range(DictKeys(w.inner_data[1][1].parameters)) :
            ~DictHas(w.inner_data[i][1].parameters, n)

(* WrappedPotential.parameters raises KeyError when a constituent lacks a  *)
(* name that another one defines.                                          *)
WrappedParametersRaises(w) ==
    \E i \in 1..Len(w.inner_data) : \E n \in WrappedKeys(w) :
        ~DictHas(w.inner_data[i][1].parameters, n)

RECURSIVE SumOfValues(_, _, _)
(* The sum of the constituents' values of a name, coefficients ignored. *)
SumOfValues(inner, key, i) ==
    IF i > Len(inner) THEN 0
    ELSE inner[1][2][2] * DictGet(inner[i][1].parameters, key).m
         + SumOfValues(inner, key, i + 1)

RECURSIVE WeightedSum(_, _, _)
(* sum(coeff * pot.parameters[key] for pot, coeff in inner_data), over   *)
(* the common denominator of the coefficients.                           *)
WeightedSum(inner, key, i) ==
    IF i > Len(inner) THEN 0
    ELSE inner[i][2][1] * DictGet(inner[i][1].parameters, key).m
         + WeightedSum(inner, key, i + 1)

(* WrappedPotential.parameters when every constituent defines every     *)
(* name: each name with the coefficient-weighted sum of its values, in   *)
(* the units of the first constituent. The names are listed here in the  *)
(* order of the first constituent; the code iterates a set of names.     *)
WrappedParameters(w) ==
    IF Len(w.inner_data) = 0 THEN <<>>
    ELSE LET first == w.inner_data[1][1]
         IN  [j \in 1..Len(first.parameters) |->
                 <<first.parameters[j][1],
                   Quantity(WeightedSum(w.inner_data, first.parameters[j][1], 1)
                                \div w.inner_data[1][2][2],
                            first.parameters[j][2].units)>>]

(* potential.parameters, of a Potential or a WrappedPotential. *)
PotentialParameters(p) == IF p.wrapped THEN WrappedParameters(p) ELSE p.parameters

(* len(potential.parameters), for a Potential or a WrappedPotential. *)
NumParameters(p) ==
    IF p.wrapped THEN Cardinality(WrappedKeys(p)) ELSE Len(p.parameters)

(* ------------------------------ arrays ---------------------------------- *)

(* numpy.array(rows) of a list of rows of equal length. *)
Array(rows) ==
    [nrows |-> Len(rows),
     ncols |-> IF Len(rows) = 0 THEN 0 ELSE Len(rows[1]),
     rows  |-> rows]

Ragged(rows) == \E i, j \in 1..Len(rows) : Len(rows[i]) # Len(rows[j])

Result(status, val) == [status |-> status, val |-> val]

(* --------------------------- Collection --------------------------------- *)

RECURSIVE get_mapping_loop_every(_, _, _, _)
(* get_mapping with the index advanced on every slot, not only on the    *)
(* first encounter of a PotentialKey.                                    *)
get_mapping_loop_every(values, i, mapping, index) ==
    IF i > Len(values) THEN mapping
    ELSE IF ~DictHas(mapping, values[i])
         THEN get_mapping_loop_every(values, i + 1,
                                     Append(mapping, <<values[i], index>>), index + 1)
         ELSE get_mapping_loop_every(values, i + 1, mapping, index + 1)

RECURSIVE get_mapping_loop(_, _, _, _)
get_mapping_loop(values, i, mapping, index) ==
    IF i > Len(values) THEN mapping
    ELSE IF ~DictHas(mapping, values[i])
         THEN get_mapping_loop(values, i + 1, Append(mapping, <<values[i], index>>), index + 1)
         ELSE get_mapping_loop(values, i + 1, mapping, index)

(* Collection.get_mapping: PotentialKey -> index, as a dict. *)
get_mapping(km) == get_mapping_loop(DictValues(km), 1, <<>>, 0)

(* The WrappedPotential test applied to the first stored value only. *)
FirstWrapped(pots) == Len(pots) > 0 /\ isinstance_WrappedPotential(pots[1][2])

(* any(isinstance(potential, WrappedPotential) for potential in potentials.values()) *)
AnyWrapped(pots) == \E i \in 1..Len(pots) : isinstance_WrappedPotential(pots[i][2])

(* The rows of get_force_field_parameters taken in the reverse of the    *)
(* iteration order of potentials.                                        *)
ParameterRowsReversed(pots) ==
    [i \in 1..Len(pots) |->
        [j \in 1..Len(PotentialParameters(pots[Len(pots) + 1 - i][2])) |->
            PotentialParameters(pots[Len(pots) + 1 - i][2])[j][2].m]]

(* [[v.m for v in p.parameters.values()] for p in self.potentials.values()] *)
ParameterRows(pots) ==
    [i \in 1..Len(pots) |->
        [j \in 1..Len(PotentialParameters(pots[i][2])) |->
            PotentialParameters(pots[i][2])[j][2].m]]

(* Collection.get_force_field_parameters. numpy.array refuses a list of   *)
(* rows of different lengths (ValueError, inhomogeneous shape).           *)
get_force_field_parameters(pots) ==
    IF AnyWrapped(pots) THEN Result("NotImplementedError", None)
    ELSE IF Ragged(ParameterRows(pots)) THEN Result("ValueError", None)
    ELSE Result("ok", Array(ParameterRows(pots)))

RECURSIVE get_system_parameters_loop_slot(_, _, _, _, _)
(* get_system_parameters gathering row i of p for slot i, instead of the *)
(* row of the slot's PotentialKey.                                       *)
get_system_parameters_loop_slot(values, i, mapping, p, q) ==
    IF i > Len(values) THEN Result("ok", Array(q))
    ELSE LET index == i - 1
         IN  IF index >= p.nrows THEN Result("IndexError", None)
             ELSE get_system_parameters_loop_slot(values, i + 1, mapping, p,
                                                  Append(q, p.rows[index + 1]))

RECURSIVE get_system_parameters_loop(_, _, _, _, _)
get_system_parameters_loop(values, i, mapping, p, q) ==
    IF i > Len(values) THEN Result("ok", Array(q))
    ELSE LET index == DictGet(mapping, values[i])
         IN  IF index >= p.nrows THEN Result("IndexError", None)
             ELSE get_system_parameters_loop(values, i + 1, mapping, p,
                                             Append(q, p.rows[index + 1]))

(* Collection.get_system_parameters(p), p = None or Some(array). *)
get_system_parameters(km, pots, p) ==
    IF AnyWrapped(pots) THEN Result("NotImplementedError", None)
    ELSE LET ff == IF p = None THEN get_force_field_parameters(pots)
                   ELSE Result("ok", p[1])
         IN  IF ff.status # "ok" THEN ff
             ELSE get_system_parameters_loop(DictValues(km), 1, get_mapping(km),
                                             ff.val, <<>>)

(* p[index] always reading the first row. *)
jax_row_first(p, index) == p.rows[1]

(* p[index] on an array of the differentiable backend with at least one  *)
(* row: an index past the end reads the last row.                        *)
jax_row(p, index) == p.rows[IF index >= p.nrows THEN p.nrows ELSE index + 1]

(* Collection.parametrize(p), on the differentiable backend:             *)
(* get_system_parameters(p=p, use_jax=True) on plain Potentials.         *)
parametrize(km, p) ==
    Array([i \in 1..Len(km) |-> jax_row(p, DictGet(get_mapping(km), km[i][2]))])

(* The array of the shape of p that is 1 at row d, column c and 0        *)
(* elsewhere: the tangent of forward-mode differentiation.               *)
Tangent(p, d, c) ==
    [nrows |-> p.nrows, ncols |-> p.ncols,
     rows  |-> [r \in 1..p.nrows |-> [j \in 1..p.ncols |-> IF r = d /\ j = c THEN 1 ELSE 0]]]

(* Collection.get_param_matrix: jax.jacfwd of parametrize at p; the      *)
(* function is linear in p, so its derivative along a tangent is its     *)
(* value on the tangent. The result of shape (S, C, D, C) is reshaped to *)
(* (-1, D * C); with no force field parameter the reshape has no target. *)
get_param_matrix(km, pots) ==
    LET ff == get_force_field_parameters(pots)
    IN  IF ff.status # "ok" THEN ff
        ELSE IF ff.val.nrows * ff.val.ncols = 0 THEN Result("ValueError", None)
        ELSE LET p == ff.val
                 S == Len(km)
                 C == p.ncols
                 D == p.nrows
             IN  Result("ok",
                    [nrows |-> S * C, ncols |-> D * C,
                     rows  |-> [r \in 1..(S * C) |-> [q \in 1..(D * C) |->
                         parametrize(km, Tangent(p, ((q - 1) \div C) + 1, ((q - 1) % C) + 1))
                             .rows[((r - 1) \div C) + 1][((r - 1) % C) + 1]]]])

RECURSIVE get_parameters_loop(_, _, _, _)
get_parameters_loop(km, pots, atom_indices, i) ==
    IF i > Len(km) THEN Result("MissingParametersError", None)
    ELSE IF km[i][1].atom_indices = atom_indices
    THEN LET potential_key == km[i][2]
         IN  IF ~DictHas(pots, potential_key) THEN Result("KeyError", None)
             ELSE LET potential == DictGet(pots, potential_key)
                  IN  IF potential.wrapped /\ WrappedParametersRaises(potential)
                      THEN Result("KeyError", None)
                      ELSE Result("ok", PotentialParameters(potential))
    ELSE get_parameters_loop(km, pots, atom_indices, i + 1)

(* Collection._get_parameters(atom_indices) *)
get_parameters(km, pots, atom_indices) == get_parameters_loop(km, pots, atom_indices, 1)

(* The inner loop of set_force_field_parameters on a plain Potential:     *)
(* every parameter gets the new magnitude and keeps its units.            *)
SetRow(potential, row) ==
    [potential EXCEPT !.parameters =
        [j \in 1..Len(potential.parameters) |->
            <<potential.parameters[j][1],
              Quantity(row[j], potential.parameters[j][2].units)>>]]

RECURSIVE set_force_field_parameters_loop(_, _, _, _)
set_force_field_parameters_loop(mapping, i, pots, new_p) ==
    IF i > Len(mapping) THEN Result("ok", pots)
    ELSE LET potential_key == mapping[i][1]
             potential_index == mapping[i][2]
         IN  IF ~DictHas(pots, potential_key) THEN Result("KeyError", pots)
             ELSE LET potential == DictGet(pots, potential_key)
                  IN  IF potential.wrapped /\ WrappedParametersRaises(potential)
                      THEN Result("KeyError", pots)
                      ELSE IF new_p.ncols # NumParameters(potential)
                      THEN Result("RuntimeError", pots)
                      ELSE IF potential.wrapped
                      THEN (* the assignment goes to the dict the property
                              computed for this access, which is dropped *)
                           set_force_field_parameters_loop(mapping, i + 1, pots, new_p)
                      ELSE set_force_field_parameters_loop(mapping, i + 1,
                               DictSet(pots, potential_key,
                                       SetRow(potential, new_p.rows[potential_index + 1])),
                               new_p)

(* set_force_field_parameters refusing only an array with too few rows. *)
set_force_field_parameters_fewer(km, pots, new_p) ==
    IF new_p.nrows < Len(get_mapping(km)) THEN Result("RuntimeError", pots)
    ELSE set_force_field_parameters_loop(get_mapping(km), 1, pots, new_p)

(* Collection.set_force_field_parameters(new_p): the status and the       *)
(* potentials it leaves behind.                                           *)
set_force_field_parameters(km, pots, new_p) ==
    IF new_p.nrows # Len(get_mapping(km)) THEN Result("RuntimeError", pots)
    ELSE set_force_field_parameters_loop(get_mapping(km), 1, pots, new_p)

(* ---------------------- key_map encoding -------------------------------- *)

(* The match statement of validate_key_map with the bond and angle cases *)
(* exchanged.                                                            *)
key_class_exchanged(associated_handler) ==
    CASE associated_handler = "Bonds" -> "AngleKey"
      [] associated_handler = "Angles" -> "BondKey"
      [] associated_handler = "ProperTorsions" -> "ProperTorsionKey"
      [] associated_handler = "ImproperTorsions" -> "ImproperTorsionKey"
      [] associated_handler = "LibraryCharges" -> "LibraryChargeTopologyKey"
      [] associated_handler = "ToolkitAM1BCCHandler" -> "SingleAtomChargeTopologyKey"
      [] OTHER -> "TopologyKey"

(* match val_dict["associated_handler"]: the class the key is decoded as. *)
key_class(associated_handler) ==
    CASE associated_handler = "Bonds" -> "BondKey"
      [] associated_handler = "Angles" -> "AngleKey"
      [] associated_handler = "ProperTorsions" -> "ProperTorsionKey"
      [] associated_handler = "ImproperTorsions" -> "ImproperTorsionKey"
      [] associated_handler = "LibraryCharges" -> "LibraryChargeTopologyKey"
      [] associated_handler = "ToolkitAM1BCCHandler" -> "SingleAtomChargeTopologyKey"
      [] OTHER -> "TopologyKey"

(* key_class.model_validate_json(key): whether the class accepts the     *)
(* encoded key. The charge keys hold one atom index, the valence keys    *)
(* the atom indices of their family, the generic key any atom indices.   *)
model_validate_json_accepts(class, key) ==
    /\ key.wellformed
    /\ CASE class = "BondKey" -> Len(key.atom_indices) = 2
         [] class = "AngleKey" -> Len(key.atom_indices) = 3
         [] class \in {"ProperTorsionKey", "ImproperTorsionKey"} -> Len(key.atom_indices) = 4
         [] class \in {"LibraryChargeTopologyKey", "SingleAtomChargeTopologyKey"} ->
                Len(key.atom_indices) = 1
         [] OTHER -> TRUE

(* One iteration of the loop of validate_key_map on the encoded entry    *)
(* key: val; val is the JSON text of an object with associated_handler.  *)
(* The outcome is the decoded pair, or ValueError(associated_handler).   *)
validate_key_map_entry(key, val) ==
    LET class == key_class(val.associated_handler)
    IN  IF model_validate_json_accepts(class, key) /\ val.wellformed
        THEN Result("ok", <<[class |-> class, atom_indices |-> key.atom_indices,
                             mult |-> key.mult, bond_order |-> key.bond_order],
                            PotentialKey(val.id, val.mult, val.associated_handler,
                                         val.bond_order)>>)
        ELSE Result("ValueError", Some(val.associated_handler))

(* key.model_dump_json() of a TopologyKey of any class: the fields of    *)
(* the key; the class is not part of the text.                           *)
dump_topology_key(key) ==
    [atom_indices |-> key.atom_indices, mult |-> key.mult,
     bond_order |-> key.bond_order, wellformed |-> TRUE]

(* value.model_dump_json() of a PotentialKey. *)
dump_potential_key(pk) ==
    [id |-> pk.id, mult |-> pk.mult, associated_handler |-> pk.associated_handler,
     bond_order |-> pk.bond_order, wellformed |-> TRUE]

(* serialize_key_map, json mode. *)
serialize_key_map(km) ==
    [i \in 1..Len(km) |-> <<dump_topology_key(km[i][1]), dump_potential_key(km[i][2])>>]

RECURSIVE validate_key_map_loop(_, _, _)
validate_key_map_loop(v, i, tmp) ==
    IF i > Len(v) THEN Result("ok", tmp)
    ELSE LET r == validate_key_map_entry(v[i][1], v[i][2])
         IN  IF r.status # "ok" THEN r
             ELSE validate_key_map_loop(v, i + 1, DictSet(tmp, r.val[1], r.val[2]))

(* validate_key_map, json mode. *)
validate_key_map(v) == validate_key_map_loop(v, 1, <<>>)

(* The JSON text of a quantity: its magnitude and the name of its unit. *)
dump_quantity(q) == [val |-> q.m, unit |-> q.units]

load_quantity(text) == Quantity(text.val, text.unit)

(* value.model_dump_json() of a stored value: the fields parameters and  *)
(* map_key of a Potential; a WrappedPotential has no field, its          *)
(* _inner_data is a private attribute.                                   *)
dump_potential(p) ==
    IF p.wrapped THEN [fields |-> {}]
    ELSE [fields |-> {"parameters", "map_key"},
          parameters |-> [j \in 1..Len(p.parameters) |->
                             <<p.parameters[j][1], dump_quantity(p.parameters[j][2])>>],
          map_key |-> p.map_key]

(* Potential.model_validate_json(val): absent fields take their defaults. *)
load_potential(text) ==
    Potential(IF "parameters" \in text.fields
              THEN [j \in 1..Len(text.parameters) |->
                       <<text.parameters[j][1], load_quantity(text.parameters[j][2])>>]
              ELSE <<>>,
              IF "map_key" \in text.fields THEN text.map_key ELSE None)

(* serialize_potential_dict, json mode. *)
serialize_potential_dict(pots) ==
    [i \in 1..Len(pots) |-> <<dump_potential_key(pots[i][1]), dump_potential(pots[i][2])>>]

(* validate_potential_dict, json mode: every value is read as a Potential. *)
validate_potential_dict(v) ==
    [i \in 1..Len(v) |->
        <<PotentialKey(v[i][1].id, v[i][1].mult, v[i][1].associated_handler,
                       v[i][1].bond_order),
          load_potential(v[i][2])>>]

(* ------------------- parameter handlers and topologies ------------------ *)

(* The parameter-definition tables (force fields) the operations are given: *)
(* "ff1" defines a and the bond-order-dependent c; "ff2" is a              *)
(* re-parametrised table that defines a only.                              *)
Handlers == {"ff1", "ff2"}

HandlerIds(h) == IF h = "ff1" THEN {"a", "c"} ELSE {"a"}

(* The topologies: bond orders not assigned; bond orders assigned; bond   *)
(* orders assigned and one more valence term that no definition matches.  *)
Topologies == {"unassigned", "assigned", "unmatched"}

(* bond.fractional_bond_order of topology.get_bond_between(x, y), x < y. *)
fractional_bond_order(topology, x) ==
    IF topology = "unassigned" THEN None ELSE Some(10 + 5 * (x % 3))

(* The magnitude a table gives a parameter of definition id, term n. *)
Magnitude(h, id, n) ==
    (IF h = "ff1" THEN 100 ELSE 200)
    + (IF id = "a" THEN 10 ELSE 30) + n

(* A k_bondorder / length_bondorder table: two sample bond orders. *)
BondOrderTable(h, id, n, u) ==
    << <<10, Quantity(400 + n, u)>>, <<20, Quantity(600 + n, u)>> >>

Interpolated(id) == id = "c"

(* len(parameter.phase), len(parameter.k) of a torsion definition. *)
NumTerms(id) == IF id = "a" THEN 2 ELSE 1

(* parameter_handler.parameters[smirks] of a BondHandler. *)
BondType(h, id) ==
    [smirks |-> id,
     k      |-> IF Interpolated(id) THEN None
                ELSE Some(Quantity(Magnitude(h, id, 0), "kcal/mol/angstrom**2")),
     length |-> IF Interpolated(id) THEN None
                ELSE Some(Quantity(Magnitude(h, id, 1), "angstrom")),
     k_bondorder |-> IF Interpolated(id)
                     THEN Some(BondOrderTable(h, id, 0, "kcal/mol/angstrom**2"))
                     ELSE None,
     length_bondorder |-> IF Interpolated(id)
                          THEN Some(BondOrderTable(h, id, 1, "angstrom"))
                          ELSE None]

(* parameter_handler.parameters[smirks] of an AngleHandler. *)
AngleType(h, id) ==
    [smirks |-> id,
     k      |-> Quantity(Magnitude(h, id, 0), "kcal/mol/radian**2"),
     angle  |-> Quantity(Magnitude(h, id, 1), "degree")]

(* parameter_handler.parameters[smirks] of a ProperTorsionHandler. *)
ProperTorsionType(h, id) ==
    [smirks |-> id,
     k           |-> IF Interpolated(id) THEN None
                     ELSE Some([n \in 1..NumTerms(id) |->
                                  Quantity(Magnitude(h, id, n), "kcal/mol")]),
     periodicity |-> [n \in 1..NumTerms(id) |-> n],
     phase       |-> [n \in 1..NumTerms(id) |-> Quantity(180 * (n - 1), "degree")],
     idivf       |-> [n \in 1..NumTerms(id) |-> 1],
     k_bondorder |-> IF Interpolated(id)
                     THEN Some([n \in 1..NumTerms(id) |->
                                  BondOrderTable(h, id, n, "kcal/mol")])
                     ELSE None]

(* parameter_handler.parameters[smirks] of an ImproperTorsionHandler:     *)
(* definition a gives an idivf for its first term only, c gives none.     *)
ImproperTorsionType(h, id) ==
    [smirks |-> id,
     k           |-> [n \in 1..NumTerms(id) |-> Quantity(Magnitude(h, id, n), "kcal/mol")],
     periodicity |-> [n \in 1..NumTerms(id) |-> n + 1],
     phase       |-> [n \in 1..NumTerms(id) |-> Quantity(180, "degree")],
     idivf       |-> IF id = "c" THEN None
                     ELSE Some([n \in 1..NumTerms(id) |->
                                  IF n = 1 THEN Some(2) ELSE None])]

(* parameter_handler.default_idivf of an ImproperTorsionHandler. *)
default_idivf(h) == IF h = "ff1" THEN [auto |-> TRUE] ELSE [auto |-> FALSE, value |-> 4]

(* ----------------------------- matcher ----------------------------------- *)

(* The atom indices of slot i (0-based) of an interaction family. *)
Slot(k, i) ==
    IF k = "Bonds" THEN <<i, i + 1>>
    ELSE IF k = "Angles" THEN <<i, i + 1, i + 2>>
    ELSE <<i, i + 1, i + 2, i + 3>>

(* parameter_handler.find_matches(topology): a dict from atom indices to   *)
(* the matched definition, here every assignment of definitions of the    *)
(* table to the first n slots.                                            *)
FindMatches(k, h) ==
    UNION { [1..n -> HandlerIds(h)] : n \in 0..MaxSlots }

Match(k, ids, i) == [key |-> Slot(k, i - 1), smirks |-> ids[i]]

(* _check_all_valence_terms_assigned: every valence term of the topology  *)
(* must be among the matches.                                             *)
check_all_valence_terms_assigned(topology, km) ==
    IF topology = "unmatched" THEN Result("UnassignedValenceError", km)
    ELSE Result("ok", km)

(* -------------------------- store_matches ------------------------------- *)

(* store_matches writing into the key_map it finds. *)
KeepKeyMap(km) == km

(* if self.key_map: self.key_map = dict() *)
ResetKeyMap(km) == IF km # <<>> THEN <<>> ELSE km

RECURSIVE BondStoreMatchesLoop(_, _, _, _, _)
BondStoreMatchesLoop(h, topology, ids, i, km) ==
    IF i > Len(ids) THEN check_all_valence_terms_assigned(topology, km)
    ELSE LET key == Match("Bonds", ids, i).key
             param == BondType(h, ids[i])
             dependent == param.k_bondorder # None \/ param.length_bondorder # None
             fbo == IF dependent THEN fractional_bond_order(topology, key[1]) ELSE None
         IN  IF dependent /\ fbo = None THEN Result("RuntimeError", km)
             ELSE BondStoreMatchesLoop(h, topology, ids, i + 1,
                      DictSet(km, TopologyKey(key, None, fbo),
                              PotentialKey(param.smirks, None, "Bonds", fbo)))

(* SMIRNOFFBondCollection.store_matches *)
BondStoreMatches(h, topology, ids, km) ==
    BondStoreMatchesLoop(h, topology, ids, 1, ResetKeyMap(km))

(* SMIRNOFFCollection.store_matches, which the angle collection inherits. *)
RECURSIVE AngleStoreMatchesLoop(_, _, _, _, _)
AngleStoreMatchesLoop(h, topology, ids, i, km) ==
    IF i > Len(ids) THEN check_all_valence_terms_assigned(topology, km)
    ELSE AngleStoreMatchesLoop(h, topology, ids, i + 1,
             DictSet(km, TopologyKey(Match("Angles", ids, i).key, None, None),
                     PotentialKey(ids[i], None, "Angles", None)))

AngleStoreMatches(h, topology, ids, km) ==
    AngleStoreMatchesLoop(h, topology, ids, 1, ResetKeyMap(km))

RECURSIVE ProperStoreMatchesLoopFirstBond(_, _, _, _, _, _)
(* The proper-torsion store_matches reading the bond order of the bond  *)
(* key[0], key[1] instead of the central bond.                           *)
ProperStoreMatchesLoopFirstBond(h, topology, ids, i, n, km) ==
    IF i > Len(ids) THEN check_all_valence_terms_assigned(topology, km)
    ELSE LET key == Match("ProperTorsions", ids, i).key
             param == ProperTorsionType(h, ids[i])
             n_terms == Len(param.phase)
         IN  IF n >= n_terms
             THEN ProperStoreMatchesLoopFirstBond(h, topology, ids, i + 1, 0, km)
             ELSE LET dependent == param.k_bondorder # None
                      fbo == IF dependent THEN fractional_bond_order(topology, key[1])
                             ELSE None
                  IN  IF dependent /\ fbo = None THEN Result("RuntimeError", km)
                      ELSE ProperStoreMatchesLoopFirstBond(h, topology, ids, i, n + 1,
                               DictSet(km, TopologyKey(key, Some(n), fbo),
                                       PotentialKey(param.smirks, Some(n),
                                                    "ProperTorsions", fbo)))

RECURSIVE ProperStoreMatchesLoop(_, _, _, _, _, _)
ProperStoreMatchesLoop(h, topology, ids, i, n, km) ==
    IF i > Len(ids) THEN check_all_valence_terms_assigned(topology, km)
    ELSE LET key == Match("ProperTorsions", ids, i).key
             param == ProperTorsionType(h, ids[i])
             n_terms == Len(param.phase)
         IN  IF n >= n_terms
             THEN ProperStoreMatchesLoop(h, topology, ids, i + 1, 0, km)
             ELSE LET dependent == param.k_bondorder # None
                      (* the bond order of the central bond key[1], key[2] *)
                      fbo == IF dependent THEN fractional_bond_order(topology, key[2])
                             ELSE None
                  IN  IF dependent /\ fbo = None THEN Result("RuntimeError", km)
                      ELSE ProperStoreMatchesLoop(h, topology, ids, i, n + 1,
                               DictSet(km, TopologyKey(key, Some(n), fbo),
                                       PotentialKey(param.smirks, Some(n),
                                                    "ProperTorsions", fbo)))

(* SMIRNOFFProperTorsionCollection.store_matches *)
ProperStoreMatches(h, topology, ids, km) ==
    ProperStoreMatchesLoop(h, topology, ids, 1, 0, ResetKeyMap(km))

(* The three keys one improper match writes for term n: the central atom *)
(* key[1], then a cyclic permutation of the other three.                 *)
(* The central atom followed by three transpositions of the others. *)
ImproperPermutationsTransposed(key) ==
    << <<key[2], key[1], key[3], key[4]>>,
       <<key[2], key[3], key[1], key[4]>>,
       <<key[2], key[4], key[3], key[1]>> >>

(* The three atom index tuples store_matches writes for one match of an  *)
(* improper torsion.                                                     *)
ImproperPermutations(key) ==
    LET non_central_indices == <<key[1], key[3], key[4]>>
        perms == << <<0, 1, 2>>, <<1, 2, 0>>, <<2, 0, 1>> >>
    IN  [p \in 1..3 |->
            <<key[2],
              non_central_indices[perms[p][1] + 1],
              non_central_indices[perms[p][2] + 1],
              non_central_indices[perms[p][3] + 1]>>]

RECURSIVE ImproperStoreMatchesLoop(_, _, _, _, _, _)
ImproperStoreMatchesLoop(h, ids, i, n, p, km) ==
    IF i > Len(ids) THEN Result("ok", km)
    ELSE LET key == Match("ImproperTorsions", ids, i).key
             param == ImproperTorsionType(h, ids[i])
             n_terms == Len(param.k)
         IN  IF n >= n_terms
             THEN ImproperStoreMatchesLoop(h, ids, i + 1, 0, 1, km)
             ELSE IF p > 3
             THEN ImproperStoreMatchesLoop(h, ids, i, n + 1, 1, km)
             ELSE ImproperStoreMatchesLoop(h, ids, i, n, p + 1,
                      DictSet(km, TopologyKey(ImproperPermutations(key)[p], Some(n), None),
                              PotentialKey(param.smirks, Some(n),
                                           "ImproperTorsions", None)))

(* SMIRNOFFImproperTorsionCollection.store_matches *)
ImproperStoreMatches(h, topology, ids, km) ==
    ImproperStoreMatchesLoop(h, ids, 1, 0, 1, ResetKeyMap(km))

(* store_matches of the collection of family k: status and key_map. *)
store_matches(k, h, topology, ids, km) ==
    IF k = "Bonds" THEN BondStoreMatches(h, topology, ids, km)
    ELSE IF k = "Angles" THEN AngleStoreMatches(h, topology, ids, km)
    ELSE IF k = "ProperTorsions" THEN ProperStoreMatches(h, topology, ids, km)
    ELSE ImproperStoreMatches(h, topology, ids, km)

(* ------------------------- store_potentials ----------------------------- *)

(* _get_interpolation_coeffs with the two coefficients exchanged. *)
get_interpolation_coeffs_swapped(fbo, data) ==
    LET x1 == data[1][1]
        x2 == data[2][1]
    IN  << <<fbo - x1, x2 - x1>>, <<x2 - fbo, x2 - x1>> >>

(* _get_interpolation_coeffs: the two coefficients, each <<num, den>>. *)
get_interpolation_coeffs(fbo, data) ==
    LET x1 == data[1][1]
        x2 == data[2][1]
    IN  << <<x2 - fbo, x2 - x1>>, <<fbo - x1, x2 - x1>> >>

(* parameter_handler.parameters[smirks] finds the definition. *)
HasParameter(h, smirks) == smirks \in HandlerIds(h)

RECURSIVE BondStorePotentialsLoop(_, _, _, _)
BondStorePotentialsLoop(h, km, i, pots) ==
    IF i > Len(km) THEN Result("ok", pots)
    ELSE LET topology_key == km[i][1]
             potential_key == km[i][2]
         IN  IF ~HasParameter(h, potential_key.id)
             THEN Result("ParameterLookupError", pots)
             ELSE IF topology_key.bond_order # None
             THEN (* pots.append(potential=...): list.append takes no
                     keyword argument *)
                  Result("TypeError", pots)
             ELSE LET ffp == BondType(h, potential_key.id)
                      potential == Potential(<< <<"k", ffp.k[1]>>,
                                                <<"length", ffp.length[1]>> >>, None)
                  IN  BondStorePotentialsLoop(h, km, i + 1,
                                              DictSet(pots, potential_key, potential))

(* if self.potentials: self.potentials = dict() *)
ResetPotentials(pots) == IF pots # <<>> THEN <<>> ELSE pots

(* SMIRNOFFBondCollection.store_potentials *)
BondStorePotentials(h, km, pots) ==
    BondStorePotentialsLoop(h, km, 1, ResetPotentials(pots))

RECURSIVE AngleStorePotentialsLoop(_, _, _, _)
AngleStorePotentialsLoop(h, km, i, pots) ==
    IF i > Len(km) THEN Result("ok", pots)
    ELSE LET potential_key == km[i][2]
         IN  IF ~HasParameter(h, potential_key.id)
             THEN Result("ParameterLookupError", pots)
             ELSE LET parameter == AngleType(h, potential_key.id)
                      potential == Potential(<< <<"k", parameter.k>>,
                                                <<"angle", parameter.angle>> >>, None)
                  IN  AngleStorePotentialsLoop(h, km, i + 1,
                                               DictSet(pots, potential_key, potential))

(* SMIRNOFFAngleCollection.store_potentials *)
AngleStorePotentials(h, km, pots) == AngleStorePotentialsLoop(h, km, 1, pots)

(* The parameters of term n of a proper torsion, with the given k. *)
ProperParameters(parameter, n, k) ==
    << <<"k", k>>,
       <<"periodicity", Quantity(parameter.periodicity[n + 1], "dimensionless")>>,
       <<"phase", parameter.phase[n + 1]>>,
       <<"idivf", Quantity(parameter.idivf[n + 1], "dimensionless")>> >>

(* The WrappedPotential of an interpolated proper torsion term: one      *)
(* Potential per sample bond order, each with its coefficient.           *)
ProperInterpolated(parameter, n, bond_order) ==
    LET data == parameter.k_bondorder[1][n + 1]
        coeffs == get_interpolation_coeffs(bond_order, data)
        map_keys == DictKeys(data)
        pots == [m \in 1..Len(map_keys) |->
                    Potential(ProperParameters(parameter, n, DictGet(data, map_keys[m])),
                              Some(map_keys[m]))]
    IN  WrappedPotential([m \in 1..Len(pots) |-> <<pots[m], coeffs[m]>>])

RECURSIVE ProperStorePotentialsLoop(_, _, _, _)
ProperStorePotentialsLoop(h, km, i, pots) ==
    IF i > Len(km) THEN Result("ok", pots)
    ELSE LET topology_key == km[i][1]
             potential_key == km[i][2]
             n == potential_key.mult[1]
         IN  IF ~HasParameter(h, potential_key.id)
             THEN Result("ParameterLookupError", pots)
             ELSE LET parameter == ProperTorsionType(h, potential_key.id)
                      potential ==
                          IF topology_key.bond_order # None
                          THEN ProperInterpolated(parameter, n, topology_key.bond_order[1])
                          ELSE Potential(ProperParameters(parameter, n,
                                                          parameter.k[1][n + 1]), None)
                  IN  ProperStorePotentialsLoop(h, km, i + 1,
                                                DictSet(pots, potential_key, potential))

(* SMIRNOFFProperTorsionCollection.store_potentials *)
ProperStorePotentials(h, km, pots) == ProperStorePotentialsLoop(h, km, 1, pots)

(* idivf of term n of an improper torsion: the definition's, else the    *)
(* handler's default, 3.0 when that is "auto".                           *)
ImproperIdivf(h, parameter, n) ==
    LET idivf == IF parameter.idivf = None THEN None
                 ELSE parameter.idivf[1][n + 1]
    IN  IF idivf # None THEN Quantity(idivf[1], "dimensionless")
        ELSE IF default_idivf(h).auto THEN Quantity(3, "dimensionless")
        ELSE Quantity(default_idivf(h).value, "dimensionless")

RECURSIVE ImproperStorePotentialsLoop(_, _, _, _)
ImproperStorePotentialsLoop(h, km, i, pots) ==
    IF i > Len(km) THEN Result("ok", pots)
    ELSE LET potential_key == km[i][2]
             n == potential_key.mult[1]
         IN  IF ~HasParameter(h, potential_key.id)
             THEN Result("ParameterLookupError", pots)
             ELSE LET parameter == ImproperTorsionType(h, potential_key.id)
                      potential == Potential(
                          << <<"k", parameter.k[n + 1]>>,
                             <<"periodicity",
                               Quantity(parameter.periodicity[n + 1], "dimensionless")>>,
                             <<"phase", parameter.phase[n + 1]>>,
                             <<"idivf", ImproperIdivf(h, parameter, n)>> >>, None)
                  IN  ImproperStorePotentialsLoop(h, km, i + 1,
                                                  DictSet(pots, potential_key, potential))

(* SMIRNOFFImproperTorsionCollection.store_potentials *)
ImproperStorePotentials(h, km, pots) == ImproperStorePotentialsLoop(h, km, 1, pots)

(* store_potentials resolving the PotentialKey of the first slot only. *)
store_potentials_first_slot(k, h, km, pots) ==
    LET first == IF km = <<>> THEN km ELSE <<km[1]>>
    IN  IF k = "Bonds" THEN BondStorePotentials(h, first, pots)
        ELSE IF k = "Angles" THEN AngleStorePotentials(h, first, pots)
        ELSE IF k = "ProperTorsions" THEN ProperStorePotentials(h, first, pots)
        ELSE ImproperStorePotentials(h, first, pots)

(* store_potentials of the collection of family k: status and potentials. *)
store_potentials(k, h, km, pots) ==
    IF k = "Bonds" THEN BondStorePotentials(h, km, pots)
    ELSE IF k = "Angles" THEN AngleStorePotentials(h, km, pots)
    ELSE IF k = "ProperTorsions" THEN ProperStorePotentials(h, km, pots)
    ELSE ImproperStorePotentials(h, km, pots)

(* ------------------ directly constructed Collections -------------------- *)

GenericIds == {"a", "b"}

GenericKey(id) == PotentialKey(id, None, "vdW", None)

(* The values a directly constructed Collection may hold under a key: a   *)
(* two-parameter Potential, a one-parameter Potential, a WrappedPotential. *)
GenericPotential(id, shape) ==
    LET base == IF id = "a" THEN 10 ELSE 20
        two == << <<"epsilon", Quantity(base + 1, "kcal/mol")>>,
                  <<"sigma", Quantity(base + 2, "angstrom")>> >>
    IN  IF shape = "two" THEN Potential(two, None)
        ELSE IF shape = "one"
        THEN Potential(<< <<"charge", Quantity(base + 3, "elementary_charge")>> >>, None)
        ELSE WrappedPotentialOf(Potential(two, None))

Shapes == {"two", "one", "wrapped"}

Injective(f) == \A i, j \in DOMAIN f : f[i] = f[j] => i = j

GenericKeyMaps ==
    UNION { { [i \in 1..n |-> <<TopologyKey(<<i - 1>>, None, None), GenericKey(ids[i])>>] :
                ids \in [1..n -> GenericIds] } : n \in 0..MaxSlots }

GenericPotentials ==
    { [i \in 1..Len(ids) |-> <<GenericKey(ids[i]), GenericPotential(ids[i], shapes[i])>>] :
        ids \in { f \in UNION { [1..m -> GenericIds] : m \in 0..Cardinality(GenericIds) } :
                     Injective(f) },
        shapes \in [1..Cardinality(GenericIds) -> Shapes] }

(* --------------------------- input arrays ------------------------------- *)

(* The arrays handed to set_force_field_parameters and                    *)
(* get_system_parameters: every cell of an array differs from the others. *)
ArrayOf(nrows, ncols) ==
    [nrows |-> nrows, ncols |-> ncols,
     rows  |-> [r \in 1..nrows |-> [c \in 1..ncols |-> (r - 1) * ncols + c]]]

Arrays == { ArrayOf(nrows, ncols) : nrows \in 0..(MaxSlots + 1), ncols \in {2, 4} }

(* ------------------------------ actions --------------------------------- *)

Call(op, arg, status, val, before) ==
    [op |-> op, arg |-> arg, status |-> status, val |-> val, before |-> before]

NoCall == Call("none", None, "ok", None, None)

(* The collection as a call finds it. *)
Snapshot == [key_map |-> key_map, potentials |-> potentials]

(* The caller takes the result of the call that returned. *)
Return ==
    /\ pc = "returned"
    /\ pc' = "ready"
    /\ ret' = NoCall
    /\ UNCHANGED <<kind, key_map, potentials, matched_ok, populated>>

StoreMatches(h, topology, ids) ==
    /\ pc = "ready"
    /\ kind # "Collection"
    /\ LET r == store_matches(kind, h, topology, ids, key_map)
       IN  /\ key_map' = r.val
           /\ matched_ok' = (r.status = "ok")
           /\ ret' = Call("store_matches", <<h, topology, ids>>, r.status, None, Snapshot)
    /\ populated' = FALSE
    /\ pc' = "returned"
    /\ UNCHANGED <<kind, potentials>>

StorePotentials(h) ==
    /\ pc = "ready"
    /\ kind # "Collection"
    /\ LET r == store_potentials(kind, h, key_map, potentials)
       IN  /\ potentials' = r.val
           /\ populated' = (r.status = "ok")
           /\ ret' = Call("store_potentials", h, r.status, None, Snapshot)
    /\ pc' = "returned"
    /\ UNCHANGED <<kind, key_map, matched_ok>>

(* Whether any definition of the table is bond-order-dependent. *)
get_uses_interpolation(h) == \E id \in HandlerIds(h) : Interpolated(id)

(* create, on the collection it has just constructed: bond orders are    *)
(* assigned when the table interpolates, then store_matches and          *)
(* store_potentials run.                                                 *)
Create(h, topology, ids) ==
    /\ pc = "ready"
    /\ kind \in {"Bonds", "ProperTorsions"}
    /\ key_map = <<>> /\ potentials = <<>> /\ ~matched_ok /\ ~populated
    /\ LET t  == IF get_uses_interpolation(h) /\ topology = "unassigned"
                 THEN "assigned" ELSE topology
           r1 == store_matches(kind, h, t, ids, key_map)
           r2 == IF r1.status = "ok"
                 THEN store_potentials(kind, h, r1.val, potentials)
                 ELSE Result(r1.status, potentials)
       IN  /\ ret' = Call("create", <<h, topology, ids>>, r2.status, None, Snapshot)
           /\ IF r2.status = "ok"
              THEN /\ key_map' = r1.val
                   /\ potentials' = r2.val
                   /\ matched_ok' = TRUE
                   /\ populated' = TRUE
              ELSE (* create raises: no collection is returned *)
                   UNCHANGED <<key_map, potentials, matched_ok, populated>>
    /\ pc' = "returned"
    /\ UNCHANGED kind

GetMapping ==
    /\ pc = "ready"
    /\ ret' = Call("get_mapping", None, "ok", get_mapping(key_map), None)
    /\ pc' = "returned"
    /\ UNCHANGED <<kind, key_map, potentials, matched_ok, populated>>

GetForceFieldParameters ==
    /\ pc = "ready"
    /\ LET r == get_force_field_parameters(potentials)
       IN  ret' = Call("get_force_field_parameters", None, r.status, r.val, None)
    /\ pc' = "returned"
    /\ UNCHANGED <<kind, key_map, potentials, matched_ok, populated>>

SetForceFieldParameters(new_p) ==
    /\ pc = "ready"
    /\ LET r == set_force_field_parameters(key_map, potentials, new_p)
       IN  /\ potentials' = r.val
           /\ ret' = Call("set_force_field_parameters", new_p, r.status, None, Snapshot)
    /\ pc' = "returned"
    /\ UNCHANGED <<kind, key_map, matched_ok, populated>>

(* set_force_field_parameters(get_force_field_parameters()) *)
SetGetForceFieldParameters ==
    /\ pc = "ready"
    /\ LET g == get_force_field_parameters(potentials)
           r == IF g.status = "ok"
                THEN set_force_field_parameters(key_map, potentials, g.val)
                ELSE Result(g.status, potentials)
       IN  /\ potentials' = r.val
           /\ ret' = Call("set_get_force_field_parameters", g.val, r.status, None,
                          Snapshot)
    /\ pc' = "returned"
    /\ UNCHANGED <<kind, key_map, matched_ok, populated>>

GetSystemParameters(p) ==
    /\ pc = "ready"
    /\ LET r == get_system_parameters(key_map, potentials, p)
       IN  ret' = Call("get_system_parameters", p, r.status, r.val, None)
    /\ pc' = "returned"
    /\ UNCHANGED <<kind, key_map, potentials, matched_ok, populated>>

(* The atom indices _get_parameters is asked for: those of entry e of    *)
(* key_map, and for e = 0 those of no slot.                              *)
QueryIndices(e) == IF e = 0 THEN <<7, 8, 9>> ELSE key_map[e][1].atom_indices

GetParameters(e) ==
    /\ pc = "ready"
    /\ e <= Len(key_map)
    /\ LET r == get_parameters(key_map, potentials, QueryIndices(e))
       IN  ret' = Call("_get_parameters", QueryIndices(e), r.status, r.val, None)
    /\ pc' = "returned"
    /\ UNCHANGED <<kind, key_map, potentials, matched_ok, populated>>

(* Collection.model_validate_json(collection.model_dump_json()): the     *)
(* key_map and the potentials of the Collection read back.               *)
RoundTrip ==
    /\ pc = "ready"
    /\ LET km == validate_key_map(serialize_key_map(key_map))
           pots == validate_potential_dict(serialize_potential_dict(potentials))
       IN  ret' = IF km.status # "ok"
                  THEN Call("model_validate_json", None, km.status, km.val, None)
                  ELSE Call("model_validate_json", None, "ok",
                            [key_map |-> km.val, potentials |-> pots], None)
    /\ pc' = "returned"
    /\ UNCHANGED <<kind, key_map, potentials, matched_ok, populated>>

GetParamMatrix ==
    /\ pc = "ready"
    /\ LET r == get_param_matrix(key_map, potentials)
       IN  ret' = Call("get_param_matrix", None, r.status, r.val, None)
    /\ pc' = "returned"
    /\ UNCHANGED <<kind, key_map, potentials, matched_ok, populated>>

(* ----------------------- ingestion: SpecStore --------------------------- *)

SmirnoffKinds == {"Bonds", "Angles", "ProperTorsions", "ImproperTorsions"}

(* A valence collection as its constructor leaves it. *)
InitStore ==
    /\ kind \in SmirnoffKinds
    /\ key_map = <<>>
    /\ potentials = <<>>
    /\ matched_ok = FALSE
    /\ populated = FALSE
    /\ pc = "ready"
    /\ ret = NoCall

NextStore ==
    \/ \E h \in Handlers, topology \in Topologies :
          \E ids \in FindMatches(kind, h) : StoreMatches(h, topology, ids)
    \/ \E h \in Handlers : StorePotentials(h)
    \/ \E h \in Handlers, topology \in Topologies :
          \E ids \in FindMatches(kind, h) : Create(h, topology, ids)
    \/ Return

SpecStore == InitStore /\ [][NextStore]_vars

(* ------------------------- flattening: Spec ----------------------------- *)

(* The collections one round of store_matches and store_potentials can   *)
(* leave behind, started on collection c.                                *)
OneRound(k, c) ==
    { LET r1 == store_matches(k, h1, topology, ids, c.key_map)
          r2 == store_potentials(k, h2, r1.val, c.potentials)
      IN  [key_map |-> r1.val, potentials |-> r2.val,
           matched_ok |-> r1.status = "ok", populated |-> r2.status = "ok"] :
        <<h1, ids>> \in UNION { {h} \X FindMatches(k, h) : h \in Handlers },
        topology \in Topologies, h2 \in Handlers }

Constructed ==
    [key_map |-> <<>>, potentials |-> <<>>, matched_ok |-> FALSE, populated |-> FALSE]

(* A valence collection after at most two rounds of ingestion. *)
Ingested(k) ==
    {Constructed} \cup OneRound(k, Constructed)
    \cup UNION { OneRound(k, c) : c \in OneRound(k, Constructed) }

(* A Collection as deserialized from a document (any key_map, any         *)
(* potentials), or a valence collection after ingestion.                 *)
Init ==
    /\ kind \in {"Collection"} \cup SmirnoffKinds
    /\ IF kind = "Collection"
       THEN /\ key_map \in GenericKeyMaps
            /\ potentials \in GenericPotentials
            /\ matched_ok = FALSE
            /\ populated = FALSE
       ELSE \E c \in Ingested(kind) :
               /\ key_map = c.key_map
               /\ potentials = c.potentials
               /\ matched_ok = c.matched_ok
               /\ populated = c.populated
    /\ pc = "ready"
    /\ ret = NoCall

Next ==
    \/ GetMapping
    \/ GetForceFieldParameters
    \/ \E new_p \in Arrays : SetForceFieldParameters(new_p)
    \/ SetGetForceFieldParameters
    \/ \E e \in 0..(6 * MaxSlots) : GetParameters(e)
    \/ RoundTrip
    \/ GetParamMatrix
    \/ \E p \in {None} \cup {Some(a) : a \in Arrays} : GetSystemParameters(p)
    \/ Return

Spec == Init /\ [][Next]_vars

(* ------------------- functions and properties: SpecPure ----------------- *)

(* Bond orders, in tenths. *)
BondOrders == {0, 5, 10, 15, 20, 25, 30}

SampleOrders == {10, 20, 30}

(* k_bondorder-like tables: a dict from sample bond order to a value, of  *)
(* one, two or three samples in any order.                                *)
SampleTables ==
    { [i \in 1..Len(f) |-> <<f[i], Quantity(20 * f[i] + 200, "kcal/mol")>>] :
        f \in { g \in UNION { [1..n -> SampleOrders] : n \in 1..3 } : Injective(g) } }

(* x1, x2 = data.keys() needs exactly two keys. *)
GetInterpolationCoeffs(fbo, data) ==
    /\ pc = "ready"
    /\ ret' = IF Len(data) # 2
              THEN Call("_get_interpolation_coeffs", <<fbo, data>>, "ValueError", None, None)
              ELSE Call("_get_interpolation_coeffs", <<fbo, data>>, "ok",
                        get_interpolation_coeffs(fbo, data), None)
    /\ pc' = "returned"
    /\ UNCHANGED <<kind, key_map, potentials, matched_ok, populated>>

(* A sample Potential of a bond definition at sample bond order f, with  *)
(* the given parameter names.                                            *)
SamplePotential(f, names) ==
    Potential([j \in 1..Len(names) |->
                  IF names[j] = "k" THEN <<"k", Quantity(20 * f + 200, "kcal/mol/angstrom**2")>>
                  ELSE <<names[j], Quantity(2 * f + 100, "angstrom")>>],
              Some(f))

NameLists == {<<"k", "length">>, <<"length", "k">>, <<"k">>}

(* WrappedPotential(data) for data a single Potential, and for data a    *)
(* dict of the sample Potentials at 1.0 and 2.0 with the coefficients of *)
(* a bond order.                                                         *)
WrappedPotentials ==
    { WrappedPotentialOf(SamplePotential(f, names)) : f \in {10, 20}, names \in NameLists }
    \cup
    { LET coeffs == get_interpolation_coeffs(fbo, << <<10, 0>>, <<20, 0>> >>)
      IN  WrappedPotential(<< <<SamplePotential(10, n1), coeffs[1]>>,
                              <<SamplePotential(20, n2), coeffs[2]>> >>) :
        fbo \in BondOrders, n1 \in NameLists, n2 \in NameLists }

(* The orders in which a set of names can be iterated. *)
Orderings(S) == { f \in [1..Cardinality(S) -> S] : Injective(f) }

(* Reading WrappedPotential.parameters: the names come out in the        *)
(* iteration order of a set.                                             *)
ReadWrappedParameters(w) ==
    /\ pc = "ready"
    /\ IF WrappedParametersRaises(w)
       THEN ret' = Call("WrappedPotential.parameters", w, "KeyError", None, None)
       ELSE \E order \in Orderings(Range(DictKeys(WrappedParameters(w)))) :
               ret' = Call("WrappedPotential.parameters", w, "ok",
                           [j \in 1..Len(order) |->
                               <<order[j], DictGet(WrappedParameters(w), order[j])>>],
                           None)
    /\ pc' = "returned"
    /\ UNCHANGED <<kind, key_map, potentials, matched_ok, populated>>

HandlerNames ==
    {"Bonds", "Angles", "ProperTorsions", "ImproperTorsions", "LibraryCharges",
     "ToolkitAM1BCCHandler", "vdW", "Electrostatics"}

(* Encoded TopologyKeys: the JSON text of a key, or text that no key     *)
(* class accepts.                                                        *)
EncodedKeys ==
    { [atom_indices |-> a, mult |-> None, bond_order |-> None, wellformed |-> w] :
        a \in {<<0>>, <<0, 1>>, <<0, 1, 2>>, <<0, 1, 2, 3>>}, w \in BOOLEAN }

(* Encoded PotentialKeys: the JSON text of an object that names its      *)
(* handler, which PotentialKey accepts or not.                           *)
EncodedPotentialKeys ==
    { [id |-> "a", mult |-> None, associated_handler |-> h, bond_order |-> None,
       wellformed |-> w] : h \in HandlerNames, w \in BOOLEAN }

ValidateKeyMap(key, val) ==
    /\ pc = "ready"
    /\ LET r == validate_key_map_entry(key, val)
       IN  ret' = Call("validate_key_map", <<key, val>>, r.status, r.val, None)
    /\ pc' = "returned"
    /\ UNCHANGED <<kind, key_map, potentials, matched_ok, populated>>

InitPure ==
    /\ kind = "Collection"
    /\ key_map = <<>>
    /\ potentials = <<>>
    /\ matched_ok = FALSE
    /\ populated = FALSE
    /\ pc = "ready"
    /\ ret = NoCall

NextPure ==
    \/ \E fbo \in BondOrders, data \in SampleTables : GetInterpolationCoeffs(fbo, data)
    \/ \E w \in WrappedPotentials : ReadWrappedParameters(w)
    \/ \E key \in EncodedKeys, val \in EncodedPotentialKeys : ValidateKeyMap(key, val)
    \/ Return

SpecPure == InitPure /\ [][NextPure]_vars

(* ======================== properties ==================================== *)

(* The position of the first occurrence of k among values. *)
FirstAt(values, k) ==
    CHOOSE i \in 1..Len(values) : values[i] = k /\ \A j \in 1..(i - 1) : values[j] # k

(* C1: get_mapping() returns a map whose keys are exactly the distinct    *)
(* PotentialKeys that are values of key_map, whose values are exactly     *)
(* 0..n-1 with none repeated, the index of a key being the number of      *)
(* distinct PotentialKeys first encountered before it in key_map.         *)
C1_MappingIsFirstEncounterBijection ==
    ret.op = "get_mapping" =>
        LET mapping == ret.val
            values  == DictValues(key_map)
            n       == Cardinality(Range(values))
        IN  /\ ret.status = "ok"
            /\ Range(DictKeys(mapping)) = Range(values)
            /\ Len(mapping) = n
            /\ Range(DictValues(mapping)) = 0..(n - 1)
            /\ \A i \in 1..Len(mapping) :
                  mapping[i][2] =
                    Cardinality({values[j] : j \in 1..(FirstAt(values, mapping[i][1]) - 1)})

(* C1 witness: get_mapping has run on a key_map in which slots share a   *)
(* PotentialKey and a new PotentialKey follows a repeated one.           *)
C1_Witness ==
    /\ ret.op = "get_mapping"
    /\ Len(ret.val) >= 2
    /\ \E i \in 1..Len(key_map) : \E j \in (i + 1)..Len(key_map) :
          \E l \in (j + 1)..Len(key_map) :
             key_map[i][2] = key_map[j][2] /\ key_map[l][2] # key_map[i][2]

(* C2: on a Collection of plain Potentials (deserialized, or populated by *)
(* store_matches and store_potentials) whose potentials hold exactly the  *)
(* PotentialKeys of key_map, a completed                                  *)
(* set_force_field_parameters(get_force_field_parameters()) leaves every  *)
(* quantity of potentials as it was and get_force_field_parameters()      *)
(* returns the same array as before, whatever the order of key_map and    *)
(* of potentials.                                                         *)
C2_SetGetIsNoOp ==
    (/\ ret.op = "set_get_force_field_parameters"
     /\ ~AnyWrapped(ret.before.potentials)
     /\ kind = "Collection" \/ (matched_ok /\ populated)
     /\ Range(DictKeys(potentials)) = Range(DictValues(key_map))
     /\ ret.status = "ok") =>
        /\ potentials = ret.before.potentials
        /\ get_force_field_parameters(potentials) = Result("ok", ret.arg)

(* The array get_system_parameters projects: p, or the force field       *)
(* parameters when p is omitted.                                         *)
ProjectedArray(arg) ==
    IF arg = None THEN get_force_field_parameters(potentials) ELSE Result("ok", arg[1])

(* C3: on a Collection of plain Potentials, get_system_parameters(p)      *)
(* returns one row per entry of key_map, in key_map order, the row of a   *)
(* slot being p[get_mapping()[key_map[slot]]]; two slots that share a     *)
(* PotentialKey get identical rows. It returns whenever p has a row for   *)
(* every index of the mapping.                                            *)
C3_SystemParametersRows ==
    (/\ ret.op = "get_system_parameters"
     /\ ~AnyWrapped(potentials)
     /\ ProjectedArray(ret.arg).status = "ok") =>
        LET p       == ProjectedArray(ret.arg).val
            mapping == get_mapping(key_map)
        IN  /\ ret.status = "ok" <=> (key_map = <<>> \/ p.nrows >= Len(mapping))
            /\ ret.status = "ok" =>
                  /\ ret.val.nrows = Len(key_map)
                  /\ \A i \in 1..Len(key_map) :
                        ret.val.rows[i] = p.rows[DictGet(mapping, key_map[i][2]) + 1]
                  /\ \A i, j \in 1..Len(key_map) :
                        key_map[i][2] = key_map[j][2] => ret.val.rows[i] = ret.val.rows[j]

(* C3 witness: two bond slots on one definition: a one-entry mapping, a  *)
(* one-row force field array and two equal system rows.                  *)
C3_Witness ==
    /\ ret.op = "get_system_parameters"
    /\ ret.status = "ok"
    /\ kind = "Bonds"
    /\ Len(key_map) = 2
    /\ key_map[1][2] = key_map[2][2]
    /\ Len(get_mapping(key_map)) = 1
    /\ get_force_field_parameters(potentials).val.nrows = 1
    /\ ret.val.nrows = 2
    /\ ret.val.rows[1] = ret.val.rows[2]
    /\ ret.val.rows[1] = get_force_field_parameters(potentials).val.rows[1]

(* Every PotentialKey that is a value of key_map is a key of potentials. *)
KeysResolved(km, pots) == Range(DictValues(km)) \subseteq Range(DictKeys(pots))

C5_WrappedIsNotImplemented ==
    ret.op \in {"get_force_field_parameters", "get_system_parameters"} =>
        LET wrapped == \E i \in 1..Len(potentials) : potentials[i][2].wrapped
        IN  /\ wrapped => (ret.status = "NotImplementedError" /\ ret.val = None)
            /\ ~wrapped => ret.status # "NotImplementedError"

(* C5 witness: get_system_parameters(p) with an explicit p refused on a  *)
(* proper-torsion collection whose second potential is interpolated.     *)
C5_Witness ==
    /\ ret.op = "get_system_parameters"
    /\ ret.arg # None
    /\ ret.status = "NotImplementedError"
    /\ kind = "ProperTorsions"
    /\ Len(potentials) >= 2
    /\ ~potentials[1][2].wrapped
    /\ \E i \in 2..Len(potentials) : potentials[i][2].wrapped

(* The parameters of every PotentialKey of key_map can be read: the key   *)
(* is in potentials and, for a WrappedPotential, its constituents define  *)
(* the same names.                                                        *)
ParametersReadable(km, pots) ==
    \A k \in Range(DictValues(km)) :
        /\ DictHas(pots, k)
        /\ DictGet(pots, k).wrapped => ~WrappedParametersRaises(DictGet(pots, k))

(* C6: set_force_field_parameters(array) raises RuntimeError whenever the *)
(* row count of the array differs from len(get_mapping()); on a           *)
(* collection where the parameters of every PotentialKey of key_map can   *)
(* be read, it raises RuntimeError whenever the row length differs from   *)
(* the number of parameters of some PotentialKey, and raises no           *)
(* RuntimeError (it completes) when row count and row lengths agree.      *)
C6_ShapeMismatchIsRuntimeError ==
    ret.op = "set_force_field_parameters" =>
        LET new_p    == ret.arg
            before   == ret.before.potentials
            keys     == Range(DictValues(key_map))
            rows_ok  == new_p.nrows = Cardinality(keys)
            readable == ParametersReadable(key_map, before)
            cols_ok  == \A k \in keys : new_p.ncols = NumParameters(DictGet(before, k))
        IN  /\ ~rows_ok => ret.status = "RuntimeError"
            /\ (rows_ok /\ readable /\ ~cols_ok) => ret.status = "RuntimeError"
            /\ (rows_ok /\ readable /\ cols_ok) => ret.status = "ok"

(* C6 witness: an array with the right number of rows, two of them,      *)
(* refused for the length of its rows.                                   *)
C6_Witness ==
    /\ ret.op = "set_force_field_parameters"
    /\ ret.status = "RuntimeError"
    /\ ret.arg.nrows = 2
    /\ Cardinality(Range(DictValues(key_map))) = 2
    /\ ParametersReadable(key_map, ret.before.potentials)

(* C7: on a Collection read from a document or populated by              *)
(* store_matches and store_potentials, a                                  *)
(* set_force_field_parameters(array) that completes leaves key_map        *)
(* and the keys of potentials as they were, every potential keeps its     *)
(* parameter names in order and the unit of every parameter, and the      *)
(* magnitude of parameter j of a PotentialKey of key_map is               *)
(* array[get_mapping()[potential_key], j].                                *)
C7_SetChangesOnlyMagnitudes ==
    (/\ ret.op = "set_force_field_parameters"
     /\ ret.status = "ok"
     /\ kind = "Collection" \/ (matched_ok /\ populated)) =>
        LET new_p   == ret.arg
            before  == ret.before.potentials
            mapping == get_mapping(key_map)
        IN  /\ key_map = ret.before.key_map
            /\ DictKeys(potentials) = DictKeys(before)
            /\ \A i \in 1..Len(mapping) :
                  LET was == PotentialParameters(DictGet(before, mapping[i][1]))
                      now == PotentialParameters(DictGet(potentials, mapping[i][1]))
                  IN  /\ Len(now) = Len(was)
                      /\ \A j \in 1..Len(now) :
                            /\ now[j][1] = was[j][1]
                            /\ now[j][2].units = was[j][2].units
                            /\ now[j][2].m = new_p.rows[mapping[i][2] + 1][j]

(* C8: after a call of store_matches on a bond, proper-torsion or         *)
(* improper-torsion collection, whether it returned or raised, every      *)
(* entry of key_map is a slot of a match of that call, on the definition  *)
(* of that match: no entry of an earlier call survives.                   *)
C8_KeyMapOnlyFromThisCall ==
    (/\ ret.op = "store_matches"
     /\ kind \in {"Bonds", "ProperTorsions", "ImproperTorsions"}) =>
        LET ids == ret.arg[3]
        IN  \A e \in 1..Len(key_map) :
               \E i \in 1..Len(ids) :
                  /\ key_map[e][2].id = ids[i]
                  /\ key_map[e][2].associated_handler = kind
                  /\ key_map[e][2].mult = key_map[e][1].mult
                  /\ key_map[e][2].mult # None => key_map[e][2].mult[1] < NumTerms(ids[i])
                  /\ IF kind = "ImproperTorsions"
                     THEN key_map[e][1].atom_indices
                              \in Range(ImproperPermutations(Slot(kind, i - 1)))
                     ELSE key_map[e][1].atom_indices = Slot(kind, i - 1)

(* C8 witness: a store_matches that found a key_map of two or more        *)
(* entries and left a non-empty key_map without one of them.              *)
C8_Witness ==
    /\ ret.op = "store_matches"
    /\ kind \in {"Bonds", "ProperTorsions", "ImproperTorsions"}
    /\ Len(ret.before.key_map) >= 2
    /\ key_map # <<>>
    /\ \E e \in 1..Len(ret.before.key_map) : ret.before.key_map[e] \notin Range(key_map)

(* C9: after a store_potentials that returned, on a bond, angle,          *)
(* proper-torsion or improper-torsion collection whose store_matches      *)
(* returned, the keys of potentials are exactly the PotentialKeys that    *)
(* are values of key_map, also on a second run with other matches.        *)
C9_PotentialsOnlyFromKeyMap ==
    (ret.op = "store_potentials" /\ ret.status = "ok" /\ matched_ok) =>
        Range(DictKeys(potentials)) = Range(DictValues(key_map))

(* C10: once store_matches and then store_potentials have returned on a   *)
(* collection (each called on its own, or both by create), and until      *)
(* store_matches is called again, every PotentialKey that is a value of   *)
(* key_map is a key of potentials.                                        *)
C10_KeyMapValuesHavePotentials ==
    (matched_ok /\ populated) =>
        \A e \in 1..Len(key_map) :
            \E i \in 1..Len(potentials) : potentials[i][1] = key_map[e][2]

(* C10 witness: a second store_potentials that returned, on a key_map    *)
(* with two PotentialKeys, one of which the potentials it found lacked.  *)
C10_Witness ==
    /\ ret.op = "store_potentials"
    /\ ret.status = "ok"
    /\ matched_ok /\ populated
    /\ Cardinality(Range(DictValues(key_map))) >= 2
    /\ ret.before.potentials # <<>>
    /\ ~KeysResolved(key_map, ret.before.potentials)

(* C10 witness of create: create returned a collection with two         *)
(* PotentialKeys in key_map.                                             *)
C10_CreateWitness ==
    /\ ret.op = "create"
    /\ ret.status = "ok"
    /\ matched_ok /\ populated
    /\ Cardinality(Range(DictValues(key_map))) >= 2

(* C11: for sample points x1 < x2 and a query x, _get_interpolation_coeffs *)
(* returns coeff1 = (x2 - x)/(x2 - x1) and coeff2 = (x - x1)/(x2 - x1):    *)
(* they sum to 1, are (1, 0) at x = x1 and (0, 1) at x = x2, and are       *)
(* (0.5, 0.5) for x = 1.5 between 1.0 and 2.0.                             *)
C11_InterpolationCoeffs ==
    (/\ ret.op = "_get_interpolation_coeffs"
     /\ Len(ret.arg[2]) = 2
     /\ ret.arg[2][1][1] < ret.arg[2][2][1]) =>
        LET x  == ret.arg[1]
            x1 == ret.arg[2][1][1]
            x2 == ret.arg[2][2][1]
            c1 == ret.val[1]
            c2 == ret.val[2]
        IN  /\ ret.status = "ok"
            /\ c1[2] # 0 /\ c2[2] # 0
            /\ c1[1] * (x2 - x1) = (x2 - x) * c1[2]
            /\ c2[1] * (x2 - x1) = (x - x1) * c2[2]
            /\ c1[1] * c2[2] + c2[1] * c1[2] = c1[2] * c2[2]
            /\ x = x1 => (c1[1] = c1[2] /\ c2[1] = 0)
            /\ x = x2 => (c1[1] = 0 /\ c2[1] = c2[2])
            /\ (x = 15 /\ x1 = 10 /\ x2 = 20) => (2 * c1[1] = c1[2] /\ 2 * c2[1] = c2[2])

(* C11 witness: the coefficients of 1.5 between 1.0 and 2.0 are a half  *)
(* each.                                                                 *)
C11_Witness ==
    /\ ret.op = "_get_interpolation_coeffs"
    /\ ret.status = "ok"
    /\ ret.arg[1] = 15
    /\ DictKeys(ret.arg[2]) = <<10, 20>>
    /\ ret.val = << <<5, 10>>, <<5, 10>> >>

(* potential_parameters() of the bond and proper-torsion collections. *)
potential_parameters(k) ==
    IF k = "Bonds" THEN <<"k", "length">>
    ELSE <<"k", "periodicity", "phase", "idivf">>

(* The stored value is a WrappedPotential with one constituent per sample *)
(* point of samples, in order, each with all the names, the names other   *)
(* than k and length equal in all constituents, and each mapped to the    *)
(* linear interpolation coefficient of its sample point at bond order x.  *)
IsInterpolatedPotential(w, k, samples, x) ==
    /\ w.wrapped
    /\ Len(w.inner_data) = Len(samples)
    /\ \A m \in 1..Len(w.inner_data) :
          LET pot   == w.inner_data[m][1]
              coeff == w.inner_data[m][2]
              other == samples[3 - m]
          IN  /\ ~pot.wrapped
              /\ pot.map_key = Some(samples[m])
              /\ DictKeys(pot.parameters) = potential_parameters(k)
              /\ \A j \in 1..Len(pot.parameters) :
                    pot.parameters[j][1] \notin {"k", "length"} =>
                        pot.parameters[j] = w.inner_data[1][1].parameters[j]
              /\ coeff[2] # 0
              /\ coeff[1] * (other - samples[m]) = (other - x) * coeff[2]

(* C12: a store_potentials of a bond or proper-torsion collection, run    *)
(* after a store_matches that returned and with a table that defines      *)
(* every definition of key_map, completes and stores, for every slot      *)
(* whose TopologyKey has a bond order, a WrappedPotential with one        *)
(* constituent per sample point carrying all parameter names and mapped   *)
(* to its interpolation coefficient.                                      *)
C12_InterpolatedSlotsStoreWrapped ==
    (/\ ret.op = "store_potentials"
     /\ kind \in {"Bonds", "ProperTorsions"}
     /\ matched_ok
     /\ \A e \in 1..Len(key_map) : key_map[e][2].id \in HandlerIds(ret.arg)
     /\ \E e \in 1..Len(key_map) : key_map[e][1].bond_order # None) =>
        /\ ret.status = "ok"
        /\ \A e \in 1..Len(key_map) :
              key_map[e][1].bond_order # None =>
                  /\ DictHas(potentials, key_map[e][2])
                  /\ IsInterpolatedPotential(DictGet(potentials, key_map[e][2]), kind,
                                             <<10, 20>>, key_map[e][1].bond_order[1])

(* The proper-torsion half of C12. *)
C12_ProperInterpolatedSlotsStoreWrapped ==
    kind = "ProperTorsions" => C12_InterpolatedSlotsStoreWrapped

(* The names that some constituent of w defines and another lacks. *)
MissingNames(w) ==
    { n \in UNION { Range(DictKeys(w.inner_data[i][1].parameters)) : i \in 1..Len(w.inner_data) } :
        \E i \in 1..Len(w.inner_data) : ~DictHas(w.inner_data[i][1].parameters, n) }

(* C13: the parameters of a WrappedPotential whose constituents define    *)
(* the same names are read without error and are, for each name, the sum  *)
(* over the constituents of coefficient times value; a single Potential   *)
(* gives its own parameters, coefficients (1, 0) the first sample's       *)
(* values, (0, 1) the second's, and k=400, k=600 with (0.5, 0.5) give     *)
(* k = 500.                                                               *)
C13_WrappedParametersAreWeightedSums ==
    (ret.op = "WrappedPotential.parameters" /\ MissingNames(ret.arg) = {}) =>
        LET inner == ret.arg.inner_data
            p1 == inner[1][1].parameters
            c1 == inner[1][2]
            names == Range(DictKeys(p1))
        IN  /\ ret.status = "ok"
            /\ Range(DictKeys(ret.val)) = names
            /\ Len(ret.val) = Cardinality(names)
            /\ Len(inner) = 1 =>
                  /\ c1 = <<1, 1>>
                  /\ \A n \in names : DictGet(ret.val, n) = DictGet(p1, n)
            /\ Len(inner) = 2 =>
                  LET p2 == inner[2][1].parameters
                      c2 == inner[2][2]
                  IN  /\ \A n \in names :
                            /\ DictGet(ret.val, n).m * c1[2] * c2[2]
                                  = c1[1] * DictGet(p1, n).m * c2[2]
                                    + c2[1] * DictGet(p2, n).m * c1[2]
                            /\ DictGet(ret.val, n).units = DictGet(p1, n).units
                      /\ (c1[1] = c1[2] /\ c2[1] = 0) =>
                            \A n \in names : DictGet(ret.val, n) = DictGet(p1, n)
                      /\ (c1[1] = 0 /\ c2[1] = c2[2]) =>
                            \A n \in names : DictGet(ret.val, n) = DictGet(p2, n)
                      /\ (/\ 2 * c1[1] = c1[2] /\ 2 * c2[1] = c2[2]
                          /\ DictGet(p1, "k").m = 400 /\ DictGet(p2, "k").m = 600) =>
                            DictGet(ret.val, "k").m = 500

(* C13 witness: samples k=400 and k=600 with coefficients (0.5, 0.5)     *)
(* read as k = 500.                                                      *)
C13_Witness ==
    /\ ret.op = "WrappedPotential.parameters"
    /\ ret.status = "ok"
    /\ Len(ret.arg.inner_data) = 2
    /\ ret.arg.inner_data[1][2] = <<5, 10>>
    /\ ret.arg.inner_data[2][2] = <<5, 10>>
    /\ DictGet(ret.arg.inner_data[1][1].parameters, "k").m = 400
    /\ DictGet(ret.arg.inner_data[2][1].parameters, "k").m = 600
    /\ DictGet(ret.val, "k").m = 500

(* C14: reading the parameters of a WrappedPotential in which some        *)
(* constituent lacks a name that another constituent defines raises       *)
(* KeyError and returns no parameters.                                    *)
C14_MissingNameIsKeyError ==
    (ret.op = "WrappedPotential.parameters" /\ MissingNames(ret.arg) # {}) =>
        (ret.status = "KeyError" /\ ret.val = None)

(* C14 witness: the second constituent defines length, the first does    *)
(* not, and the read raised.                                             *)
C14_Witness ==
    /\ ret.op = "WrappedPotential.parameters"
    /\ ret.status = "KeyError"
    /\ Len(ret.arg.inner_data) = 2
    /\ DictKeys(ret.arg.inner_data[1][1].parameters) = <<"k">>
    /\ DictHas(ret.arg.inner_data[2][1].parameters, "length")

(* The bond whose fractional bond order a slot reads: the bond itself,   *)
(* or the central bond of a proper torsion, named by its first atom.     *)
SlotBond(k, atom_indices) == IF k = "Bonds" THEN atom_indices[1] ELSE atom_indices[2]

(* C15: after store_matches on a bond or proper-torsion collection, every *)
(* entry written for a bond-order-dependent definition carries the        *)
(* fractional bond order of its bond on the TopologyKey and on the        *)
(* PotentialKey alike, every other entry carries none on either key; the  *)
(* call raises RuntimeError when a bond-order-dependent definition is     *)
(* matched on a topology without assigned bond orders, and not otherwise. *)
C15_BondOrderOnBothKeys ==
    (ret.op = "store_matches" /\ kind \in {"Bonds", "ProperTorsions"}) =>
        LET topology == ret.arg[2]
            ids      == ret.arg[3]
        IN  /\ \A e \in 1..Len(key_map) :
                  /\ key_map[e][1].bond_order = key_map[e][2].bond_order
                  /\ IF Interpolated(key_map[e][2].id)
                     THEN /\ key_map[e][1].bond_order # None
                          /\ key_map[e][1].bond_order =
                                fractional_bond_order(topology,
                                    SlotBond(kind, key_map[e][1].atom_indices))
                     ELSE key_map[e][1].bond_order = None
            /\ ret.status = "RuntimeError" <=>
                  (topology = "unassigned" /\ \E i \in 1..Len(ids) : Interpolated(ids[i]))

(* C15 witness: a proper-torsion store_matches that returned with a      *)
(* bond-order-dependent entry and a plain one; and the bond of the       *)
(* dependent slot has another bond order than the bond before it.        *)
C15_Witness ==
    /\ ret.op = "store_matches"
    /\ ret.status = "ok"
    /\ kind = "ProperTorsions"
    /\ \E e, f \in 1..Len(key_map) :
          /\ key_map[e][1].bond_order # None
          /\ key_map[e][2].bond_order = key_map[e][1].bond_order
          /\ key_map[f][1].bond_order = None
          /\ key_map[f][2].bond_order = None

(* C15 witness of the failure: a bond store_matches that raised on a     *)
(* topology without assigned bond orders.                                *)
C15_UnassignedWitness ==
    /\ ret.op = "store_matches"
    /\ ret.status = "RuntimeError"
    /\ kind = "Bonds"
    /\ ret.arg[2] = "unassigned"

(* The slots of key_map with the given atom indices. *)
SlotsAt(atom_indices) == { e \in 1..Len(key_map) : key_map[e][1].atom_indices = atom_indices }

(* C16: _get_parameters(atom_indices) raises MissingParametersError and   *)
(* returns nothing when no slot of key_map has these atom indices and     *)
(* when no slot with these atom indices has its PotentialKey in           *)
(* potentials; when all of them have, it returns the parameters of the    *)
(* potential one of them maps to.                                         *)
C16_MissingParametersReported ==
    ret.op = "_get_parameters" =>
        LET slots == SlotsAt(ret.arg)
        IN  /\ slots = {} => (ret.status = "MissingParametersError" /\ ret.val = None)
            /\ (slots # {} /\ \A e \in slots : ~DictHas(potentials, key_map[e][2])) =>
                  (ret.status = "MissingParametersError" /\ ret.val = None)
            /\ (/\ slots # {}
                /\ \A e \in slots : DictHas(potentials, key_map[e][2])
                /\ ParametersReadable(key_map, potentials)) =>
                  /\ ret.status = "ok"
                  /\ \E e \in slots :
                        ret.val = PotentialParameters(DictGet(potentials, key_map[e][2]))

(* The part of C16 that the code satisfies: no slot gives                 *)
(* MissingParametersError, a slot with a stored potential gives the       *)
(* parameters of the first such slot's potential, and a slot whose        *)
(* PotentialKey is not in potentials gives KeyError.                      *)
C16_LookupOutcomes ==
    ret.op = "_get_parameters" =>
        LET slots == SlotsAt(ret.arg)
        IN  IF slots = {} THEN ret.status = "MissingParametersError" /\ ret.val = None
            ELSE LET e == CHOOSE x \in slots : \A y \in slots : x <= y
                 IN  IF ~DictHas(potentials, key_map[e][2])
                     THEN ret.status = "KeyError" /\ ret.val = None
                     ELSE ParametersReadable(key_map, potentials) =>
                             /\ ret.status = "ok"
                             /\ ret.val = PotentialParameters(DictGet(potentials, key_map[e][2]))

(* C17: validate_key_map decodes the TopologyKey of an entry as the class *)
(* that the associated_handler of the entry's encoded PotentialKey        *)
(* selects, whatever the encoded key holds: Bonds BondKey, Angles         *)
(* AngleKey, ProperTorsions ProperTorsionKey, ImproperTorsions            *)
(* ImproperTorsionKey, LibraryCharges LibraryChargeTopologyKey,           *)
(* ToolkitAM1BCCHandler SingleAtomChargeTopologyKey, any other name       *)
(* TopologyKey; when the entry cannot be decoded it raises ValueError     *)
(* carrying the handler name.                                             *)
C17_KeyClassByHandler ==
    ret.op = "validate_key_map" =>
        LET handler == ret.arg[2].associated_handler
            expected ==
                IF handler = "Bonds" THEN "BondKey"
                ELSE IF handler = "Angles" THEN "AngleKey"
                ELSE IF handler = "ProperTorsions" THEN "ProperTorsionKey"
                ELSE IF handler = "ImproperTorsions" THEN "ImproperTorsionKey"
                ELSE IF handler = "LibraryCharges" THEN "LibraryChargeTopologyKey"
                ELSE IF handler = "ToolkitAM1BCCHandler" THEN "SingleAtomChargeTopologyKey"
                ELSE "TopologyKey"
        IN  /\ ret.status \in {"ok", "ValueError"}
            /\ ret.status = "ok" =>
                  /\ ret.val[1].class = expected
                  /\ ret.val[1].atom_indices = ret.arg[1].atom_indices
                  /\ ret.val[2].associated_handler = handler
            /\ ret.status = "ValueError" => ret.val = Some(handler)
            /\ (ret.arg[1].wellformed /\ ret.arg[2].wellformed
                /\ expected = "TopologyKey") => ret.status = "ok"
            /\ (~ret.arg[1].wellformed \/ ~ret.arg[2].wellformed) =>
                  ret.status = "ValueError"

(* C17 witness: an entry of handler Angles decoded as an AngleKey. *)
C17_Witness ==
    /\ ret.op = "validate_key_map"
    /\ ret.status = "ok"
    /\ ret.arg[2].associated_handler = "Angles"
    /\ ret.val[1].class = "AngleKey"
    /\ ret.val[1].atom_indices = <<0, 1, 2>>

(* C17 witness of the failure: an entry of handler LibraryCharges that   *)
(* cannot be decoded raised ValueError("LibraryCharges").                *)
C17_FailureWitness ==
    /\ ret.op = "validate_key_map"
    /\ ret.status = "ValueError"
    /\ ret.arg[2].associated_handler = "LibraryCharges"
    /\ ret.val = <<"LibraryCharges">>

(* The class of the TopologyKeys that a collection of kind k holds. *)
KeyClassOf(k) ==
    IF k = "Bonds" THEN "BondKey"
    ELSE IF k = "Angles" THEN "AngleKey"
    ELSE IF k = "ProperTorsions" THEN "ProperTorsionKey"
    ELSE IF k = "ImproperTorsions" THEN "ImproperTorsionKey"
    ELSE "TopologyKey"

(* The Collection read back has the key_map of the Collection: the same  *)
(* TopologyKeys, of the same class, on the same PotentialKeys.           *)
SameKeyMap(read) ==
    /\ Len(read) = Len(key_map)
    /\ \A i \in 1..Len(key_map) :
          /\ read[i][1].class = KeyClassOf(kind)
          /\ read[i][1].atom_indices = key_map[i][1].atom_indices
          /\ read[i][1].mult = key_map[i][1].mult
          /\ read[i][1].bond_order = key_map[i][1].bond_order
          /\ read[i][2] = key_map[i][2]

(* The Collection read back has the potentials of the Collection: the    *)
(* same keys, each with a value of the same kind and with the same       *)
(* parameter names, magnitudes and units.                                *)
SamePotentials(read) ==
    /\ DictKeys(read) = DictKeys(potentials)
    /\ \A i \in 1..Len(potentials) :
          /\ read[i][2].wrapped = potentials[i][2].wrapped
          /\ (potentials[i][2].wrapped => ~WrappedParametersRaises(potentials[i][2])) =>
                PotentialParameters(read[i][2]) = PotentialParameters(potentials[i][2])

(* C18: serializing to JSON a Collection whose potentials hold exactly    *)
(* the PotentialKeys of its key_map and deserializing it gives a          *)
(* Collection with the same key_map and the same potentials, whether the  *)
(* potentials are plain Potentials or WrappedPotentials.                  *)
C18_JsonRoundTrip ==
    (/\ ret.op = "model_validate_json"
     /\ Range(DictKeys(potentials)) = Range(DictValues(key_map))) =>
        /\ ret.status = "ok"
        /\ SameKeyMap(ret.val.key_map)
        /\ SamePotentials(ret.val.potentials)

(* The half of C18 on Collections of plain Potentials. *)
C18_PlainJsonRoundTrip ==
    ~AnyWrapped(potentials) => C18_JsonRoundTrip

(* The key_map half of C18, on every Collection. *)
C18_KeyMapJsonRoundTrip ==
    ret.op = "model_validate_json" => (ret.status = "ok" /\ SameKeyMap(ret.val.key_map))

(* C19: on a Collection of plain Potentials with C parameters each, S     *)
(* slots and D >= 1 rows of force field parameters, every PotentialKey of *)
(* key_map being a key of potentials, get_param_matrix() returns a matrix *)
(* of S*C rows and D*C columns whose entry at row (s, c), column (d, c')  *)
(* is 1 when d = get_mapping()[key_map value of s] and c = c', and 0      *)
(* otherwise.                                                             *)
C19_ParamMatrixIsJacobian ==
    (/\ ret.op = "get_param_matrix"
     /\ ~AnyWrapped(potentials)
     /\ KeysResolved(key_map, potentials)
     /\ Len(potentials) >= 1
     /\ \A i \in 1..Len(potentials) :
           /\ Len(potentials[i][2].parameters) = Len(potentials[1][2].parameters)
           /\ Len(potentials[i][2].parameters) >= 1) =>
        LET S == Len(key_map)
            D == Len(potentials)
            C == Len(potentials[1][2].parameters)
            mapping == get_mapping(key_map)
        IN  /\ ret.status = "ok"
            /\ ret.val.nrows = S * C
            /\ ret.val.ncols = D * C
            /\ Len(ret.val.rows) = S * C
            /\ \A s \in 1..S, c \in 1..C :
                  /\ Len(ret.val.rows[(s - 1) * C + c]) = D * C
                  /\ \A d \in 1..D, c2 \in 1..C :
                        ret.val.rows[(s - 1) * C + c][(d - 1) * C + c2] =
                            IF d - 1 = DictGet(mapping, key_map[s][2]) /\ c = c2
                            THEN 1 ELSE 0

(* C19 witness: a matrix of 4 rows and 4 columns for two slots on two    *)
(* definitions of two parameters each, the second slot reading the       *)
(* second row of the force field parameters.                             *)
C19_Witness ==
    /\ ret.op = "get_param_matrix"
    /\ ret.status = "ok"
    /\ Len(key_map) = 2
    /\ Len(potentials) = 2
    /\ ret.val.nrows = 4
    /\ ret.val.ncols = 4
    /\ ret.val.rows[1] = <<1, 0, 0, 0>>
    /\ ret.val.rows[4] = <<0, 0, 0, 1>>

(* C20: on a Collection of plain Potentials whose potentials are exactly  *)
(* the PotentialKeys of key_map, each row of get_system_parameters()      *)
(* called without p holds the magnitudes of the parameters of             *)
(* potentials[key_map[slot]] for the slot of that row.                    *)
C20_SystemRowsOfSameKey ==
    (/\ ret.op = "get_system_parameters"
     /\ ret.arg = None
     /\ ~AnyWrapped(potentials)
     /\ kind = "Collection" \/ (matched_ok /\ populated)
     /\ Range(DictKeys(potentials)) = Range(DictValues(key_map))
     /\ ret.status = "ok") =>
        /\ ret.val.nrows = Len(key_map)
        /\ \A i \in 1..Len(key_map) :
              LET parameters == DictGet(potentials, key_map[i][2]).parameters
              IN  ret.val.rows[i] = [j \in 1..Len(parameters) |-> parameters[j][2].m]

(* The part of C20 that holds: when the keys of potentials are in the     *)
(* first-encounter order of the values of key_map, each row of            *)
(* get_system_parameters() is that of the PotentialKey of its slot.       *)
C20_SystemRowsWhenOrdersAgree ==
    (/\ ret.op = "get_system_parameters"
     /\ ret.arg = None
     /\ ~AnyWrapped(potentials)
     /\ KeysResolved(key_map, potentials)
     /\ \A i \in 1..Len(potentials) :
           DictHas(get_mapping(key_map), potentials[i][1]) =>
               DictGet(get_mapping(key_map), potentials[i][1]) = i - 1
     /\ ret.status = "ok") =>
        /\ ret.val.nrows = Len(key_map)
        /\ \A i \in 1..Len(key_map) :
              LET parameters == DictGet(potentials, key_map[i][2]).parameters
              IN  ret.val.rows[i] = [j \in 1..Len(parameters) |-> parameters[j][2].m]

(* C21: on a Collection of plain Potentials in which every PotentialKey   *)
(* of key_map has a Potential, a set_force_field_parameters(array) that   *)
(* raises its shape-mismatch RuntimeError leaves potentials exactly as it *)
(* was before the call, also when the mismatch is found at a              *)
(* PotentialKey that comes after others in get_mapping() order.           *)
C21_ShapeMismatchLeavesPotentials ==
    (/\ ret.op = "set_force_field_parameters"
     /\ ~AnyWrapped(ret.before.potentials)
     /\ kind = "Collection" \/ (matched_ok /\ populated)
     /\ KeysResolved(key_map, ret.before.potentials)
     /\ ret.status = "RuntimeError") =>
        potentials = ret.before.potentials

(* The part of C21 that holds: a RuntimeError for the number of rows, or  *)
(* for the length of the rows at the first PotentialKey of get_mapping(), *)
(* leaves potentials as it was.                                           *)
C21_EarlyMismatchLeavesPotentials ==
    (/\ ret.op = "set_force_field_parameters"
     /\ ~AnyWrapped(ret.before.potentials)
     /\ KeysResolved(key_map, ret.before.potentials)
     /\ ret.status = "RuntimeError"
     /\ \/ ret.arg.nrows # Len(get_mapping(key_map))
        \/ ret.arg.ncols #
               NumParameters(DictGet(ret.before.potentials, get_mapping(key_map)[1][1]))) =>
        potentials = ret.before.potentials

(* The entries of key_map at the given atom indices and mult. *)
EntriesAt(atom_indices, mult) ==
    { e \in 1..Len(key_map) :
        /\ key_map[e][1].atom_indices = atom_indices
        /\ key_map[e][1].mult = mult }

====
